---- MODULE Spec2Model ----
(***************************************************************************)
(* Model of iss_dashboard.py: the two cached fetchers get_iss_position()   *)
(* and get_astronauts(), the Streamlit script run that calls them, and the *)
(* "Refresh Data" button that clears the cache.                            *)
(*                                                                         *)
(* Coordinates are fixed-point integers, degrees * Scale (four decimals),  *)
(* so 28.6139 is 286139.  JSON values are tagged records; JSON strings are *)
(* sequences of one-character strings so that float() really parses them.  *)
(* Time is in seconds.  The page's own connectivity probe (httpbin) and the *)
(* rendering of metrics, map and table change none of this state.          *)
(***************************************************************************)
EXTENDS Integers, Sequences, FiniteSets, TLC

\* ------------------------------------------------------------------ bounds

\* How many times the clock may advance in one behaviour.
MaxTicks == 2

\* ------------------------------------------------------- program constants

TTL_POS == 60

TTL_CREW == 3600

NumSources == 3

FallbackLat == 286139

FallbackLon == 772090

\* The clock advances by half the position TTL or by the whole crew TTL, so
\* that ages below, at and above either TTL all occur.
TickSteps == {30, 3600}

\* ------------------------------------------------------------ JSON values

Absent == [t |-> "absent"]

Null == [t |-> "null"]

JNum(v) == [t |-> "num", v |-> v]

JStr(s) == [t |-> "str", s |-> s]

JDict2(a, b) == [t |-> "dict", latitude |-> a, longitude |-> b]

SUCCESS == <<"s", "u", "c", "c", "e", "s", "s">>

FAILURE == <<"f", "a", "i", "l", "u", "r", "e">>

Digits == {"0", "1", "2", "3", "4", "5", "6", "7", "8", "9"}

DigitVal(c) ==
  CASE c = "0" -> 0 [] c = "1" -> 1 [] c = "2" -> 2 [] c = "3" -> 3
    [] c = "4" -> 4 [] c = "5" -> 5 [] c = "6" -> 6 [] c = "7" -> 7
    [] c = "8" -> 8 [] c = "9" -> 9

AllDigits(s) == \A i \in 1..Len(s) : s[i] \in Digits

RECURSIVE IntOf(_)
IntOf(s) ==
  IF s = <<>> THEN 0
  ELSE IntOf(SubSeq(s, 1, Len(s) - 1)) * 10 + DigitVal(s[Len(s)])

RECURSIVE Pow10(_)
Pow10(n) == IF n = 0 THEN 1 ELSE 10 * Pow10(n - 1)

\* Fixed-point scale: four decimals, as in the literals 28.6139 and 77.2090.
Scale == Pow10(4)

\* The fraction digits as a fixed-point value (at most four digits are drawn).
FracOf(s) == IF Len(s) <= 4 THEN IntOf(s) * Pow10(4 - Len(s))
             ELSE IntOf(SubSeq(s, 1, 4))

NoFloat == [ok |-> FALSE, v |-> 0]

\* float() of an unsigned decimal literal: digits, optionally one ".", with at
\* least one digit on either side of it.
ParseUnsigned(s) ==
  LET dots == {i \in 1..Len(s) : s[i] = "."}
  IN  IF dots = {}
      THEN IF Len(s) >= 1 /\ AllDigits(s)
           THEN [ok |-> TRUE, v |-> IntOf(s) * Scale] ELSE NoFloat
      ELSE IF Cardinality(dots) = 1
      THEN LET p  == CHOOSE i \in dots : TRUE
               ip == SubSeq(s, 1, p - 1)
               fp == SubSeq(s, p + 1, Len(s))
           IN  IF AllDigits(ip) /\ AllDigits(fp) /\ Len(ip) + Len(fp) >= 1
               THEN [ok |-> TRUE, v |-> IntOf(ip) * Scale + FracOf(fp)]
               ELSE NoFloat
      ELSE NoFloat

\* float() of a str: an optional sign, then an unsigned literal.
ParseFloat(s) ==
  IF s = <<>> THEN NoFloat
  ELSE IF s[1] = "-"
  THEN LET r == ParseUnsigned(Tail(s))
       IN  IF r.ok THEN [ok |-> TRUE, v |-> 0 - r.v] ELSE NoFloat
  ELSE IF s[1] = "+" THEN ParseUnsigned(Tail(s))
  ELSE ParseUnsigned(s)

\* ----------------------------------------------- evaluation with exceptions

\* The result of evaluating an expression: a value, or the exception raised.
Ok(v) == [exc |-> "none", v |-> v]

Raise(e) == [exc |-> e, v |-> Absent]

\* float(x) for a JSON value x.
Float(x) ==
  CASE x.t = "num" -> Ok(x.v)
    [] x.t = "str" -> LET r == ParseFloat(x.s)
                      IN  IF r.ok THEN Ok(r.v) ELSE Raise("ValueError")
    [] OTHER -> Raise("TypeError")

\* d[key] for key in {"latitude", "longitude"}, d any JSON value.
Subscript(d, key) ==
  IF d.t # "dict" THEN Raise("TypeError")
  ELSE LET x == IF key = "latitude" THEN d.latitude ELSE d.longitude
       IN  IF x = Absent THEN Raise("KeyError") ELSE Ok(x)

\* data['iss_position'] for the decoded document.
IssPosition(doc) ==
  IF ~doc.isDict THEN Raise("TypeError")
  ELSE IF doc.iss_position = Absent THEN Raise("KeyError")
  ELSE Ok(doc.iss_position)

\* The decoded document's own latitude / longitude keys, as a JSON value.
TopLevel(doc) ==
  IF doc.isDict THEN JDict2(doc.latitude, doc.longitude) ELSE [t |-> "list"]

\* float(c[key]): the subscript, then the conversion.
FloatAt(c, key) ==
  LET x == Subscript(c, key)
  IN  IF x.exc # "none" THEN x ELSE Float(x.v)

\* ------------------------------------------------- get_iss_position: body

\* The configured sources, in list order, by the host of their URL.
apis == <<"api.open-notify.org", "api.wheretheiss.at", "api.n2yo.com">>

Coord(lat, lon) == [lat |-> lat, lon |-> lon]

NoCoord == Coord(0, 0)

Fallback == Coord(FallbackLat, FallbackLon)

\* What one pass through the try block does: return a pair, fall out of the
\* if/elif without returning, or raise.
Return(lat, lon) == [kind |-> "return", exc |-> "none", c |-> Coord(lat, lon)]

Pass == [kind |-> "pass", exc |-> "none", c |-> NoCoord]

Throw(e) == [kind |-> "exc", exc |-> e, c |-> NoCoord]

\* lat = float(c['latitude']); lon = float(c['longitude']); return lat, lon
\* where evaluating the container c may itself have raised.
ReturnLatLon(c) ==
  IF c.exc # "none" THEN Throw(c.exc)
  ELSE LET lat == FloatAt(c.v, "latitude")
           lon == FloatAt(c.v, "longitude")
       IN  IF lat.exc # "none" THEN Throw(lat.exc)
           ELSE IF lon.exc # "none" THEN Throw(lon.exc)
           ELSE Return(lat.v, lon.v)

\* The open-notify branch: data.get('message') == 'success', then the nested
\* iss_position fields.
ParseOpenNotify(doc) ==
  IF ~doc.isDict THEN Throw("AttributeError")
  ELSE IF doc.message = JStr(SUCCESS) THEN ReturnLatLon(IssPosition(doc))
  ELSE Pass

\* The wheretheiss branch: the flat latitude / longitude fields.
ParseWhereTheIss(doc) == ReturnLatLon(Ok(TopLevel(doc)))

\* The if/elif on the URL prefix; a URL matching neither branch is not parsed.
ParseBody(i, doc) ==
  IF apis[i] = "api.open-notify.org" THEN ParseOpenNotify(doc)
  ELSE IF apis[i] = "api.wheretheiss.at" THEN ParseWhereTheIss(doc)
  ELSE Pass

\* requests.get(..., timeout=10); raise_for_status(); json()
\* r.decodeError is the class json() raises on undecodable text: a
\* RequestException subclass in current requests, a bare ValueError before.
HttpGet(r) ==
  CASE r.transport = "timeout" -> Raise("RequestException")
    [] r.transport = "http_error" -> Raise("RequestException")
    [] r.transport = "bad_json" -> Raise(r.decodeError)
    [] OTHER -> Ok(r.doc)

\* The try block for source i answering r.
AttemptSource(i, r) ==
  LET data == HttpGet(r)
  IN  IF data.exc # "none" THEN Throw(data.exc) ELSE ParseBody(i, data.v)

\* An except clause that misses RequestException.
CaughtAsRequestErrorNever(e) == FALSE

\* The two except clauses: which exceptions are caught, and the warning shown.
CaughtAsRequestError(e) == e = "RequestException"

\* An except clause that names KeyError alone.
CaughtAsInvalidKeyOnly(e) == e = "KeyError"

CaughtAsInvalid(e) == e \in {"KeyError", "ValueError"}

Status(level, kind, src) == [level |-> level, kind |-> kind, src |-> src]

\* --------------------------------------------------- get_astronauts: body

JList(items) == [t |-> "list", items |-> items]

demo_astronauts ==
  << [name |-> "Demo Astronaut 1", craft |-> "ISS"],
     [name |-> "Demo Astronaut 2", craft |-> "ISS"],
     [name |-> "Demo Astronaut 3", craft |-> "ISS"] >>

Roster(count, members) == [count |-> count, members |-> members]

NoRoster == Roster(Absent, Absent)

DemoRoster == Roster(JNum(Len(demo_astronauts)), JList(demo_astronauts))

CrewReturn(ro, st) == [kind |-> "return", exc |-> "none", roster |-> ro, statuses |-> st]

CrewThrow(e) == [kind |-> "exc", exc |-> e, roster |-> NoRoster, statuses |-> <<>>]

\* Lines 67-74: the info message and the demo roster.
CrewFallback(st) ==
  CrewReturn(DemoRoster, Append(st, Status("info", "using_demo_data", 0)))

\* return data['number'], data['people'] once message == 'success'.
CrewParse(doc) ==
  IF ~doc.isDict THEN CrewThrow("AttributeError")
  ELSE IF doc.message = JStr(SUCCESS)
  THEN IF doc.number = Absent \/ doc.people = Absent THEN CrewThrow("KeyError")
       ELSE CrewReturn(Roster(doc.number, doc.people), <<>>)
  ELSE CrewFallback(<<>>)

\* The whole body of get_astronauts for the crew source answering r.
AttemptCrew(r) ==
  LET data == HttpGet(r)
  IN  IF data.exc = "none" THEN CrewParse(data.v)
      ELSE IF CaughtAsRequestError(data.exc)
      THEN CrewFallback(<< Status("warning", "crew_fetch_error", 0) >>)
      ELSE CrewThrow(data.exc)

\* ------------------------------------------------------------ st.cache_data

None == [present |-> FALSE]

Entry(v, at) == [present |-> TRUE, value |-> v, fetchedAt |-> at]

Age(e, t) == t - e.fetchedAt

\* A TTL taken to be in milliseconds.
CacheHitMillis(e, ttl, t, atTtlFresh) ==
  /\ e.present
  /\ \/ Age(e, t) * 1000 < ttl
     \/ Age(e, t) * 1000 = ttl /\ atTtlFresh

\* Whether a lookup at time t finds a usable entry.  An entry younger than
\* the TTL is served and one older is not; at exactly the TTL the decorator's
\* storage decides, which the script does not fix (atTtlFresh).
CacheHit(e, ttl, t, atTtlFresh) ==
  /\ e.present
  /\ \/ Age(e, t) < ttl
     \/ Age(e, t) = ttl /\ atTtlFresh

\* -------------------------------------------------- what the network answers

Str515 == <<"5", "1", ".", "5">>

StrNeg == <<"-", "0", ".", "1", "2", "7", "8">>

LatVals == { Absent, Null, JNum(950000), JStr(Str515), JStr(<<"x">>), JStr(<<>>) }

LonVals == { Absent, Null, JNum(1500000), JStr(StrNeg),
             JStr(<<"1", ".", "2", ".", "3">>) }

NoDoc == [isDict |-> FALSE, message |-> Absent, iss_position |-> Absent,
          latitude |-> Absent, longitude |-> Absent, positions |-> Absent]

\* A JSON document that is not an object (an array, say).
ListDoc == NoDoc

NestedDoc(m, p) == [NoDoc EXCEPT !.isDict = TRUE, !.message = m, !.iss_position = p]

FlatDoc(a, b) == [NoDoc EXCEPT !.isDict = TRUE, !.latitude = a, !.longitude = b]

SatDoc(p) == [NoDoc EXCEPT !.isDict = TRUE, !.positions = p]

SatPos(a, b) == [t |-> "sat", satlatitude |-> a, satlongitude |-> b]

PosDocs(i) ==
  CASE i = 1 ->
         {ListDoc} \cup
         { NestedDoc(m, p) :
             m \in {Absent, JStr(SUCCESS), JStr(FAILURE)},
             p \in {Absent, Null} \cup {JDict2(a, b) : a \in LatVals, b \in LonVals} }
    [] i = 2 ->
         {ListDoc} \cup {FlatDoc(a, b) : a \in LatVals, b \in LonVals}
    [] OTHER ->
         {SatDoc(SatPos(JNum(-123456), JNum(1500000)))}

Failed(tr, de) == [transport |-> tr, decodeError |-> de, doc |-> NoDoc]

Answered(doc) == [transport |-> "ok", decodeError |-> "none", doc |-> doc]

TransportFailures ==
  { Failed("timeout", "none"), Failed("http_error", "none"),
    Failed("bad_json", "RequestException"), Failed("bad_json", "ValueError") }

PosResponses(i) == TransportFailures \cup {Answered(d) : d \in PosDocs(i)}

CrewDoc(isDict, m, n, p) == [isDict |-> isDict, message |-> m, number |-> n, people |-> p]

RealCrew ==
  << [name |-> "Oleg Kononenko", craft |-> "ISS"],
     [name |-> "Li Guangsu", craft |-> "Tiangong"] >>

CrewDocs ==
  {CrewDoc(FALSE, Absent, Absent, Absent)} \cup
  { CrewDoc(TRUE, m, n, p) :
      m \in {Absent, JStr(SUCCESS), JStr(FAILURE)},
      n \in {Absent, JNum(7)},
      p \in {Absent, JList(RealCrew)} }

CrewResponses == TransportFailures \cup {Answered(d) : d \in CrewDocs}

\* --------------------------------------------------------------------- state

VARIABLES
  now,        \* the clock, in seconds
  ticks,      \* how often the clock has advanced
  pc,         \* where the script run stands
  pressed,    \* whether this run was started by the Refresh Data button
  idx,        \* the position of the for loop over apis
  posCache,   \* the decorator's entry for get_iss_position
  crewCache,  \* the decorator's entry for get_astronauts
  clearedPos, \* the cache was cleared since get_iss_position was last called
  clearedCrew,\* the cache was cleared since get_astronauts was last called
  posCall,    \* the current or last call of get_iss_position, as observed
  crewCall,   \* the current or last call of get_astronauts, as observed
  lastPos     \* the last call of get_iss_position that ran its body and returned

vars == << now, ticks, pc, pressed, idx, posCache, crewCache,
           clearedPos, clearedCrew, posCall, crewCall, lastPos >>

NoLast == [present |-> FALSE, endedAt |-> 0, ngets |-> 0, fellBack |-> FALSE,
           result |-> NoCoord, cleared |-> FALSE]

BlankPos ==
  [outcome |-> "none", afterClear |-> FALSE,
   hit |-> FALSE, staleStart |-> FALSE, gets |-> <<>>, statuses |-> <<>>,
   tried |-> <<>>, via |-> 0, fellBack |-> FALSE, result |-> NoCoord,
   exc |-> "none"]

BlankCrew ==
  [outcome |-> "none", afterClear |-> FALSE,
   hit |-> FALSE, staleStart |-> FALSE, gets |-> 0, statuses |-> <<>>,
   answer |-> "none", result |-> NoRoster, exc |-> "none"]

\* What is kept of a finished call that ran the body and returned at time t.
Archive(c, t, old) ==
  IF c.outcome = "returned" /\ ~c.hit
  THEN [present |-> TRUE, endedAt |-> t, ngets |-> Len(c.gets),
        fellBack |-> c.fellBack, result |-> c.result, cleared |-> FALSE]
  ELSE old

\* What a source's answer was, as the observer of the network sees it: the
\* expected reading of each number drawn above, independent of float().
NumberOf(x) ==
  CASE x.t = "num" -> x.v
    [] x = JStr(Str515) -> 515000
    [] x = JStr(StrNeg) -> 0 - 1278
    [] OTHER -> 0

IsNumber(x) == x.t = "num" \/ x \in {JStr(Str515), JStr(StrNeg)}

\* Why one field cannot be read as a number, or "valid".
FieldKind(x) ==
  IF x = Absent THEN "missing"
  ELSE IF x = Null THEN "null"
  ELSE IF ~IsNumber(x) THEN "nonnumeric"
  ELSE "valid"

\* The pair's class: that of the first field, latitude then longitude, that
\* is not a number.
FieldClass(a, b) == IF FieldKind(a) # "valid" THEN FieldKind(a) ELSE FieldKind(b)

Seen(i, answer, c) == [src |-> i, answer |-> answer, payload |-> c]

PairSeen(i, a, b) ==
  Seen(i, FieldClass(a, b),
       IF FieldClass(a, b) = "valid" THEN Coord(NumberOf(a), NumberOf(b)) ELSE NoCoord)

\* "fault" is any of: timeout, HTTP error status, undecodable JSON.
Observe(i, r) ==
  IF r.transport # "ok" THEN Seen(i, "fault", NoCoord)
  ELSE IF i = 3
  THEN PairSeen(i, r.doc.positions.satlatitude, r.doc.positions.satlongitude)
  ELSE IF ~r.doc.isDict THEN Seen(i, "not_object", NoCoord)
  ELSE IF i = 2 THEN PairSeen(i, r.doc.latitude, r.doc.longitude)
  ELSE IF r.doc.message # JStr(SUCCESS) THEN Seen(i, "not_success", NoCoord)
  ELSE IF r.doc.iss_position = Absent THEN Seen(i, "missing", NoCoord)
  ELSE IF r.doc.iss_position = Null THEN Seen(i, "no_position_object", NoCoord)
  ELSE PairSeen(i, r.doc.iss_position.latitude, r.doc.iss_position.longitude)

ObserveCrew(r) ==
  IF r.transport # "ok" THEN "fault"
  ELSE IF ~r.doc.isDict THEN "not_object"
  ELSE IF r.doc.message # JStr(SUCCESS) THEN "not_success"
  ELSE IF r.doc.number = Absent \/ r.doc.people = Absent THEN "missing"
  ELSE "valid"

Init ==
  /\ now = 0
  /\ ticks = 0
  /\ pc = "idle"
  /\ pressed = FALSE
  /\ idx = 1
  /\ posCache = None
  /\ crewCache = None
  /\ clearedPos = FALSE
  /\ clearedCrew = FALSE
  /\ posCall = BlankPos
  /\ crewCall = BlankCrew
  /\ lastPos = NoLast

\* ------------------------------------------------------------------- actions

\* Time passes: between script runs, or while a request is in flight.
Tick(d) ==
  /\ pc \in {"idle", "posLoop", "crewFetch"}
  /\ ticks < MaxTicks
  /\ now' = now + d
  /\ ticks' = ticks + 1
  /\ UNCHANGED << pc, pressed, idx, posCache, crewCache, clearedPos,
                  clearedCrew, posCall, crewCall, lastPos >>

\* Streamlit runs the script from the top: on a page load or widget event
\* (button = FALSE) or because Refresh Data was clicked (button = TRUE).
StartRun(button) ==
  /\ pc = "idle"
  /\ pressed' = button
  /\ pc' = "callPos"
  /\ posCall' = BlankPos
  /\ crewCall' = BlankCrew
  /\ UNCHANGED << now, ticks, idx, posCache, crewCache, clearedPos, clearedCrew,
                  lastPos >>

\* lat, lon = get_iss_position(): the decorator looks the entry up; a usable
\* entry is returned without running the body, otherwise the expired entry
\* is dropped and the body starts.
CallPosition(atTtlFresh) ==
  /\ pc = "callPos"
  /\ LET base == [BlankPos EXCEPT !.afterClear = clearedPos,
                    !.staleStart = posCache.present /\ Age(posCache, now) > TTL_POS]
     IN  IF CacheHit(posCache, TTL_POS, now, atTtlFresh)
         THEN /\ posCall' = [base EXCEPT !.outcome = "returned", !.hit = TRUE,
                               !.result = posCache.value]
              /\ pc' = "callCrew"
              /\ UNCHANGED << posCache, idx >>
         ELSE /\ posCall' = [base EXCEPT !.outcome = "running"]
              /\ posCache' = None
              /\ idx' = 1
              /\ pc' = "posLoop"
  /\ clearedPos' = FALSE
  /\ UNCHANGED << now, ticks, pressed, crewCache, clearedCrew, crewCall, lastPos >>

\* A loop that stays on the source that just failed.
NextIndexRetry(i) == i

\* for api_url in apis: the loop moves to the next list element.
NextIndex(i) == i + 1

\* One iteration of the for loop: the request to apis[idx] is answered by r.
TrySource(r) ==
  /\ pc = "posLoop"
  /\ idx <= NumSources
  /\ LET o   == AttemptSource(idx, r)
         got == [posCall EXCEPT !.gets = Append(@, idx),
                                !.tried = Append(@, Observe(idx, r))]
     IN  CASE o.kind = "return" ->
                /\ posCall' = [got EXCEPT !.outcome = "returned", !.via = idx,
                                          !.result = o.c]
                /\ posCache' = Entry(o.c, now)
                /\ pc' = "callCrew"
                /\ UNCHANGED idx
           [] o.kind = "pass" ->
                /\ posCall' = got
                /\ idx' = NextIndex(idx)
                /\ UNCHANGED << posCache, pc >>
           [] o.kind = "exc" /\ CaughtAsRequestError(o.exc) ->
                /\ posCall' = [got EXCEPT !.statuses =
                                 Append(@, Status("warning", "api_failed", idx))]
                /\ idx' = NextIndex(idx)
                /\ UNCHANGED << posCache, pc >>
           [] o.kind = "exc" /\ ~CaughtAsRequestError(o.exc) /\ CaughtAsInvalid(o.exc) ->
                /\ posCall' = [got EXCEPT !.statuses =
                                 Append(@, Status("warning", "invalid_response", idx))]
                /\ idx' = NextIndex(idx)
                /\ UNCHANGED << posCache, pc >>
           [] OTHER ->
                \* no except clause matches: the exception leaves the function,
                \* nothing is cached and the script run ends
                /\ posCall' = [got EXCEPT !.outcome = "raised", !.exc = o.exc]
                /\ pc' = "idle"
                /\ UNCHANGED << posCache, idx >>
  /\ UNCHANGED << now, ticks, pressed, crewCache, clearedPos, clearedCrew,
                  crewCall, lastPos >>

\* The demo coordinates returned without being cached.
AllSourcesFailedUncached ==
  /\ pc = "posLoop"
  /\ idx > NumSources
  /\ posCall' = [posCall EXCEPT !.outcome = "returned",
                   !.fellBack = TRUE, !.result = Fallback,
                   !.statuses = Append(@, Status("error", "all_unavailable", 0))]
  /\ pc' = "callCrew"
  /\ UNCHANGED << now, ticks, pressed, idx, posCache, crewCache, clearedPos,
                  clearedCrew, crewCall, lastPos >>

\* The loop is over without a return: st.error, and the demo coordinates.
AllSourcesFailed ==
  /\ pc = "posLoop"
  /\ idx > NumSources
  /\ posCall' = [posCall EXCEPT !.outcome = "returned",
                   !.fellBack = TRUE, !.result = Fallback,
                   !.statuses = Append(@, Status("error", "all_unavailable", 0))]
  /\ posCache' = Entry(Fallback, now)
  /\ pc' = "callCrew"
  /\ UNCHANGED << now, ticks, pressed, idx, crewCache, clearedPos,
                  clearedCrew, crewCall, lastPos >>

\* num_astros, astros_list = get_astronauts(): the decorator's lookup.
CallAstronauts(atTtlFresh) ==
  /\ pc = "callCrew"
  /\ LET base == [BlankCrew EXCEPT !.afterClear = clearedCrew,
                    !.staleStart = crewCache.present /\ Age(crewCache, now) > TTL_CREW]
     IN  IF CacheHit(crewCache, TTL_CREW, now, atTtlFresh)
         THEN /\ crewCall' = [base EXCEPT !.outcome = "returned", !.hit = TRUE,
                                !.result = crewCache.value]
              /\ pc' = "button"
              /\ UNCHANGED crewCache
         ELSE /\ crewCall' = [base EXCEPT !.outcome = "running"]
              /\ crewCache' = None
              /\ pc' = "crewFetch"
  /\ clearedCrew' = FALSE
  /\ lastPos' = Archive(posCall, now, lastPos)
  /\ posCall' = BlankPos
  /\ UNCHANGED << now, ticks, pressed, idx, posCache, clearedPos >>

\* The body of get_astronauts: the one request is answered by r.
FetchCrew(r) ==
  /\ pc = "crewFetch"
  /\ LET o   == AttemptCrew(r)
         got == [crewCall EXCEPT !.gets = @ + 1, !.answer = ObserveCrew(r)]
     IN  IF o.kind = "return"
         THEN /\ crewCall' = [got EXCEPT !.outcome = "returned", !.result = o.roster,
                                !.statuses = o.statuses]
              /\ crewCache' = Entry(o.roster, now)
              /\ pc' = "button"
         ELSE /\ crewCall' = [got EXCEPT !.outcome = "raised", !.exc = o.exc]
              /\ pc' = "idle"
              /\ UNCHANGED crewCache
  /\ UNCHANGED << now, ticks, pressed, idx, posCache, clearedPos,
                  clearedCrew, posCall, lastPos >>

\* A button that clears the position entry alone (get_iss_position.clear()).
RefreshButtonPositionOnly ==
  /\ pc = "button"
  /\ IF pressed
     THEN /\ posCache' = None
          /\ clearedPos' = TRUE
          /\ clearedCrew' = TRUE
          /\ lastPos' = [lastPos EXCEPT !.cleared = TRUE]
          /\ pressed' = FALSE
          /\ crewCall' = BlankCrew
          /\ pc' = "callPos"
          /\ UNCHANGED crewCache
     ELSE /\ pc' = "idle"
          /\ UNCHANGED << posCache, crewCache, clearedPos, clearedCrew, pressed,
                          crewCall, lastPos >>
  /\ UNCHANGED << now, ticks, idx, posCall >>

\* if st.button("Refresh Data"): st.cache_data.clear(); st.rerun()
\* and otherwise the script runs to its end.
RefreshButton ==
  /\ pc = "button"
  /\ IF pressed
     THEN /\ posCache' = None
          /\ crewCache' = None
          /\ clearedPos' = TRUE
          /\ clearedCrew' = TRUE
          /\ lastPos' = [lastPos EXCEPT !.cleared = TRUE]
          /\ pressed' = FALSE
          /\ crewCall' = BlankCrew
          /\ pc' = "callPos"
     ELSE /\ pc' = "idle"
          /\ UNCHANGED << posCache, crewCache, clearedPos, clearedCrew, pressed,
                          crewCall, lastPos >>
  /\ UNCHANGED << now, ticks, idx, posCall >>

Next ==
  \/ \E d \in TickSteps : Tick(d)
  \/ \E b \in BOOLEAN : StartRun(b)
  \/ \E f \in BOOLEAN : CallPosition(f)
  \/ \E r \in PosResponses(IF idx <= NumSources THEN idx ELSE NumSources) : TrySource(r)
  \/ AllSourcesFailed
  \/ \E f \in BOOLEAN : CallAstronauts(f)
  \/ \E r \in CrewResponses : FetchCrew(r)
  \/ RefreshButton

Spec == Init /\ [][Next]_vars

\* -------------------------------------------------------------------- claims

\* A call of get_iss_position has ended: it returned or an exception left it.
PosDone == posCall.outcome \in {"returned", "raised"}

\* The same for get_astronauts.
CrewDone == crewCall.outcome \in {"returned", "raised"}

\* The call ran the body of the function (the cache had nothing to serve).
PosRan == PosDone /\ ~posCall.hit

InRange(c) ==
  /\ c.lat >= 0 - 90 * Scale /\ c.lat <= 90 * Scale
  /\ c.lon >= 0 - 180 * Scale /\ c.lon <= 180 * Scale

Healthy(t) == t.answer = "valid" /\ InRange(t.payload)

AllFaults(c) == \A k \in 1..Len(c.tried) : c.tried[k].answer = "fault"

FaultsOrHealthy(c) ==
  \A k \in 1..Len(c.tried) : c.tried[k].answer = "fault" \/ Healthy(c.tried[k])

HasStatus(c, level, src) ==
  \E k \in 1..Len(c.statuses) : c.statuses[k].level = level /\ c.statuses[k].src = src

AnyStatus(c, src) == \E k \in 1..Len(c.statuses) : c.statuses[k].src = src

\* The last fetching call is recent and no clear came after it.
WithinWindow ==
  /\ lastPos.present
  /\ ~lastPos.cleared
  /\ now - lastPos.endedAt < TTL_POS

\* C1: whenever each contacted source either suffers a timeout, an HTTP error
\* status or undecodable JSON, or else answers a well-formed in-range
\* position, the call returns (no exception leaves it) a pair with latitude in
\* [-90, 90] and longitude in [-180, 180]; and when every source contacted
\* failed that way, all three were contacted and the pair is exactly
\* (28.6139, 77.2090).
C1_FallbackTotality ==
  (PosRan /\ FaultsOrHealthy(posCall)) =>
     /\ posCall.outcome = "returned"
     /\ InRange(posCall.result)
     /\ AllFaults(posCall) =>
          /\ Len(posCall.tried) = NumSources
          /\ posCall.result = Coord(286139, 772090)

C1_Witness ==
  /\ PosRan
  /\ Len(posCall.tried) = NumSources
  /\ AllFaults(posCall)
  /\ posCall.result = Coord(286139, 772090)
  /\ HasStatus(posCall, "warning", 1)

\* C2: when source A answers with a valid coordinate and every source before
\* it in the list failed (there being at least one), the call returns A's
\* coordinate, and each earlier source's failure was shown as a warning; for
\* each of the three sources as A.
C2_PriorityOrder ==
  \A a \in 2..Len(posCall.tried) :
     ( /\ PosDone
       /\ posCall.tried[a].answer = "valid"
       /\ \A b \in 1..(a - 1) : posCall.tried[b].answer # "valid" )
     => /\ posCall.outcome = "returned"
        /\ posCall.result = posCall.tried[a].payload
        /\ \A b \in 1..(a - 1) : HasStatus(posCall, "warning", b)

C4_StaleNeverReused ==
  /\ (PosDone /\ posCall.staleStart) =>
        /\ ~posCall.hit
        /\ Len(posCall.gets) >= 1
        /\ posCall.outcome = "returned"
        /\ posCache.present /\ posCache.value = posCall.result
  /\ (CrewDone /\ crewCall.staleStart) =>
        /\ ~crewCall.hit
        /\ crewCall.gets >= 1
        /\ crewCall.outcome = "returned"
        /\ crewCache.present /\ crewCache.value = crewCall.result

\* C5: once Refresh Data has cleared the cache both entries are gone until the
\* next call of their function, and that next call of get_iss_position and
\* of get_astronauts is not served from the cache and issues a request,
\* whatever the age of the entry that was cleared.
C5_ManualInvalidation ==
  /\ clearedPos => ~posCache.present
  /\ clearedCrew => ~crewCache.present
  /\ (pc = "callPos" /\ clearedPos) => clearedCrew
  /\ (PosDone /\ posCall.afterClear) => ~posCall.hit /\ Len(posCall.gets) >= 1
  /\ (CrewDone /\ crewCall.afterClear) => ~crewCall.hit /\ crewCall.gets >= 1

\* No time has passed, so the entries that were cleared were fresh; the call
\* of get_iss_position after the clear fetched and returned, and the call of
\* get_astronauts after the clear has issued its request and ended.
C5_Witness ==
  /\ ticks = 0
  /\ CrewDone /\ crewCall.afterClear /\ crewCall.gets >= 1
  /\ lastPos.present /\ ~lastPos.cleared

\* C6: when the crew request fails (timeout, HTTP error status, undecodable
\* JSON) or the answer's message is not 'success' or it lacks 'number' or
\* 'people', get_astronauts returns (raises nothing) the roster of count 3
\* with Demo Astronaut 1, 2 and 3, each of craft ISS.
C6_CrewFallback ==
  (CrewDone /\ ~crewCall.hit /\ crewCall.answer \in {"fault", "not_success", "missing"}) =>
     /\ crewCall.outcome = "returned"
     /\ crewCall.result.count = JNum(3)
     /\ crewCall.result.members =
          JList(<< [name |-> "Demo Astronaut 1", craft |-> "ISS"],
                   [name |-> "Demo Astronaut 2", craft |-> "ISS"],
                   [name |-> "Demo Astronaut 3", craft |-> "ISS"] >>)

\* C7: a parsed source (the first or the second) whose answer has a latitude
\* or longitude that is absent, a non-numeric string or null is handled as a
\* failed request is: a warning for that source is shown, the loop goes on,
\* and no exception leaves the call.
C7_SchemaRobustness ==
  \A k \in 1..Len(posCall.tried) :
     posCall.tried[k].answer \in {"missing", "nonnumeric", "null"} =>
        /\ HasStatus(posCall, "warning", posCall.tried[k].src)
        /\ posCall.outcome # "raised"
        /\ posCall.via # posCall.tried[k].src

\* C8: a call that contacted every source without any of them supplying the
\* coordinate returns the demo coordinate and stores it; a later call made
\* less than the TTL after it, with no clear in between, returns the demo
\* coordinate from the cache and contacts no source.
C8_FallbackCached ==
  /\ (PosDone /\ Len(posCall.tried) = NumSources /\ posCall.via = 0) =>
        /\ posCall.outcome = "returned"
        /\ posCall.result = Fallback
        /\ posCache = Entry(Fallback, now)
  /\ (posCall.outcome # "none" /\ WithinWindow /\ lastPos.fellBack) =>
        /\ posCall.hit
        /\ posCall.result = Coord(286139, 772090)
        /\ posCall.gets = <<>>

C8_Witness ==
  /\ PosDone
  /\ WithinWindow
  /\ lastPos.fellBack
  /\ now > lastPos.endedAt
  /\ posCall.result = Fallback

C10_SingleAttemptEarlyStop ==
  /\ Len(posCall.gets) <= NumSources
  /\ \A k \in 1..Len(posCall.gets) : posCall.gets[k] = k
  /\ posCall.via # 0 => posCall.via = Len(posCall.gets)
  /\ \A k \in 1..Len(posCall.tried) :
        (posCall.tried[k].answer = "valid" /\ k < NumSources) => k = Len(posCall.tried)
  /\ (posCall.outcome = "running" /\ Len(posCall.gets) > 0) => idx = Len(posCall.gets) + 1

C10_Witness ==
  /\ PosRan
  /\ posCall.via = 2
  /\ posCall.gets = <<1, 2>>
  /\ HasStatus(posCall, "warning", 1)

====
